---- MODULE Spec2Model ----
(***************************************************************************)
(* Model of librarian's internal/command package: the "generate" command   *)
(* (runGenerate, runGenerateCommand, openOrCloneLanguageRepoIfLibraryExists)*)
(* and the pull-request aggregator/publisher (PullRequestContent,          *)
(* addErrorToPullRequest, addSuccessToPullRequest, createPullRequest).     *)
(*                                                                         *)
(* Strings built with fmt.Sprintf are sequences of tokens, concatenated in *)
(* the order the format string gives; "" is the empty Go string / nil      *)
(* error / nil pointer.                                                    *)
(***************************************************************************)
EXTENDS Integers, Sequences, FiniteSets, TLC

\* ------------------------------------------------------------------ bounds
\* Largest number of items one batch records into a PullRequestContent.
MaxItems == 3

\* ------------------------------------------------------------ input domains
\* Identifiers of the items (libraries / APIs) a batch works on; a success
\* entry's text names the item.
ItemIds == {"A", "B", "C"}

\* The action a failed item was attempting.
Actions == {"generating", "building"}

\* Detail texts of the underlying Go errors of failed items.
ErrDetails == {"secret-token-1", "secret-token-2"}

\* descriptionSuffix arguments of createPullRequest.
DescriptionSuffixes == {"", "suffix"}

TitlePrefix == "feat: API regeneration"

BranchType == "generate"

\* formatTimestamp(ctx.startTime)
Timestamp == "20250101T000000"

VARIABLES
    command,      \* which flow this run executes: "generate", "publish" or "automate"
    pc,           \* position of the running command
    flagPush,     \* the -push flag
    content,      \* the PullRequestContent: [Successes, Errors]
    processed,    \* the caller's items so far, in order, with their outcomes
    description,  \* createPullRequest's local `description`
    calls,        \* collaborator invocations so far, in order: [op, arg, ok]
    slog,         \* lines written to the local log, in order: [level, msg]
    result,       \* what the command returned: [metadata, err]
    flagAPIPath,  \* the -api-path flag, a path as its sequence of segments
    flagAPIRoot,  \* the -api-root flag
    flagRepoRoot, \* the -repo-root flag
    flagRepoUrl,  \* the -repo-url flag
    flagBuild,    \* the -build flag
    repoState,    \* the pipeline state the language repository holds now
    probedState,  \* the pipeline state openOrCloneLanguageRepoIfLibraryExists read
    languageRepo, \* state.languageRepo: NoRepo or [Dir]
    pipelineState,\* state.pipelineState: NoState or the state loaded for execution
    libraryID,    \* the library id runGenerateCommand returned
    gatedLibrary, \* the automation levels of the LibraryState being gated
    decisions     \* the gate's decision per action kind, NoDecision before it

publishVars == <<flagPush, content, processed, description>>

flagVars == <<flagAPIPath, flagAPIRoot, flagRepoRoot, flagRepoUrl, flagBuild>>

generateVars == <<flagVars, repoState, probedState, languageRepo, pipelineState, libraryID>>

gateVars == <<gatedLibrary, decisions>>

vars == <<command, pc, calls, slog, result, publishVars, generateVars, gateVars>>

\* ------------------------------------------------------------------ helpers
NoError == ""

NoMetadata == ""

NoResult == [metadata |-> NoMetadata, err |-> NoError]

ErrNoPR == "errors encountered but no PR to create"

Call(op, arg, ok) == [op |-> op, arg |-> arg, ok |-> ok]

LogLine(level, msg) == [level |-> level, msg |-> msg]

\* Positions of the invocations of op in calls.
IndexOf(op) == {i \in 1..Len(calls) : calls[i].op = op}

\* TRUE iff token t occurs in the token sequence s.
Contains(s, t) == \E i \in 1..Len(s) : s[i] = t

\* ------------------------------------------------------- PullRequestContent
EmptyContent == [Successes |-> <<>>, Errors |-> <<>>]

\* fmt.Sprintf("Error while %s %s", action, id)
ErrorSummary(id, action) == <<"Error while ", action, " ", id>>

\* fmt.Sprintf("Error while %s %s: %s", action, id, err)
ErrorWarning(id, err, action) == <<"Error while ", action, " ", id, ": ", err>>

AddErrorOverwrites(id, err, action) ==
    /\ command = "publish"
    /\ pc = "collect"
    /\ Len(processed) < MaxItems
    /\ slog' = Append(slog, LogLine("WARN", ErrorWarning(id, err, action)))
    /\ content' = [content EXCEPT !.Errors = <<ErrorSummary(id, action)>>]
    /\ processed' = Append(processed,
                           [ok |-> FALSE, id |-> id, action |-> action, err |-> err])
    /\ UNCHANGED <<command, gateVars, pc, flagPush, description, calls, result, generateVars>>

AddErrorLeaksDetail(id, err, action) ==
    /\ command = "publish"
    /\ pc = "collect"
    /\ Len(processed) < MaxItems
    /\ slog' = Append(slog, LogLine("WARN", ErrorWarning(id, err, action)))
    /\ content' = [content EXCEPT !.Errors = Append(@, ErrorWarning(id, err, action))]
    /\ processed' = Append(processed,
                           [ok |-> FALSE, id |-> id, action |-> action, err |-> err])
    /\ UNCHANGED <<command, gateVars, pc, flagPush, description, calls, result, generateVars>>

\* addErrorToPullRequest(pr, id, err, action)
AddError(id, err, action) ==
    /\ command = "publish"
    /\ pc = "collect"
    /\ Len(processed) < MaxItems
    /\ slog' = Append(slog, LogLine("WARN", ErrorWarning(id, err, action)))
    /\ content' = [content EXCEPT !.Errors = Append(@, ErrorSummary(id, action))]
    /\ processed' = Append(processed,
                           [ok |-> FALSE, id |-> id, action |-> action, err |-> err])
    /\ UNCHANGED <<command, gateVars, pc, flagPush, description, calls, result, generateVars>>

AddSuccessPrepends(text) ==
    /\ command = "publish"
    /\ pc = "collect"
    /\ Len(processed) < MaxItems
    /\ content' = [content EXCEPT !.Successes = <<<<text>>>> \o @]
    /\ processed' = Append(processed,
                           [ok |-> TRUE, id |-> text, action |-> "", err |-> NoError])
    /\ UNCHANGED <<command, gateVars, pc, flagPush, description, calls, slog, result, generateVars>>

\* addSuccessToPullRequest(pr, text)
AddSuccess(text) ==
    /\ command = "publish"
    /\ pc = "collect"
    /\ Len(processed) < MaxItems
    /\ content' = [content EXCEPT !.Successes = Append(@, <<text>>)]
    /\ processed' = Append(processed,
                           [ok |-> TRUE, id |-> text, action |-> "", err |-> NoError])
    /\ UNCHANGED <<command, gateVars, pc, flagPush, description, calls, slog, result, generateVars>>

formatListAsMarkdownLastOnly(list) ==
    IF list = <<>> THEN <<>>
    ELSE <<"- ">> \o list[Len(list)] \o <<"\n">>

\* formatListAsMarkdown(list): "- " value "\n" for each value, in order.
RECURSIVE formatListAsMarkdown(_)
formatListAsMarkdown(list) ==
    IF list = <<>> THEN <<>>
    ELSE <<"- ">> \o Head(list) \o <<"\n">> \o formatListAsMarkdown(Tail(list))

ErrorsHeading == "Errors:\n==================\n"

ChangesHeading == "\n\nChanges Included:\n==================\n"

\* The description createPullRequest builds from content that has a success.
Describe(c) ==
    IF Len(c.Errors) = 0
    THEN formatListAsMarkdown(c.Successes)
    ELSE <<ErrorsHeading>> \o formatListAsMarkdown(c.Errors)
         \o <<ChangesHeading>> \o formatListAsMarkdown(c.Successes)

\* description + "\n" + descriptionSuffix when the suffix is not empty.
WithSuffix(d, descriptionSuffix) ==
    IF descriptionSuffix # "" THEN d \o <<"\n", descriptionSuffix>> ELSE d

\* fmt.Sprintf("%s: %s", titlePrefix, formatTimestamp(ctx.startTime))
Title == <<TitlePrefix, ": ", Timestamp>>

\* fmt.Sprintf("librarian-%s-%s", branchType, formatTimestamp(ctx.startTime))
Branch == <<"librarian-", BranchType, "-", Timestamp>>

\* slog.Error of every recorded error, in order.
RECURSIVE RestateErrors(_)
RestateErrors(errs) ==
    IF errs = <<>> THEN <<>>
    ELSE <<LogLine("ERROR", Head(errs))>> \o RestateErrors(Tail(errs))

\* createPullRequest's case analysis on anySuccesses / anyErrors: "nothing"
\* (return nil, nil), "refuse" (return the errors-only error) or "describe".
ClassifyErrorsSkipped(c) ==
    IF Len(c.Successes) > 0 THEN "describe" ELSE "nothing"

ClassifyAnyErrorRefuses(c) ==
    IF Len(c.Errors) > 0 THEN "refuse"
    ELSE IF Len(c.Successes) > 0 THEN "describe" ELSE "nothing"

ClassifyEmptyDescribed(c) ==
    IF Len(c.Successes) = 0 /\ Len(c.Errors) > 0 THEN "refuse" ELSE "describe"

Classify(c) ==
    LET anySuccesses == Len(c.Successes) > 0
        anyErrors == Len(c.Errors) > 0
    IN  IF ~anySuccesses /\ ~anyErrors THEN "nothing"
        ELSE IF ~anySuccesses /\ anyErrors THEN "refuse"
        ELSE "describe"

\* if !flagPush { ...; return nil, nil }
PushAlways == TRUE

PushRequested == flagPush

\* The error a failed collaborator returns.
CollaboratorError(op) ==
    CASE op = "GetGitHubRepoFromRemote" -> "remote error"
      [] op = "PushBranch" -> "push error"
      [] op = "CreatePullRequest" -> "create pull request error"
      [] op = "Clean" -> "clean error"
      [] op = "CopyFS" -> "copy error"
      [] op = "BuildLibrary" -> "build library error"
      [] op = "BuildRaw" -> "build raw error"
      [] op = "GenerateLibrary" -> "generate library error"
      [] op = "GenerateRaw" -> "generate raw error"
      [] OTHER -> "error"

Fail(err) == [metadata |-> NoMetadata, err |-> err]

\* createPullRequest up to its first collaborator call: the classification of
\* the content, the description, the title and the push check.
CreatePullRequestStart(descriptionSuffix) ==
    /\ command = "publish"
    /\ pc = "collect"
    /\ LET case == Classify(content)
           d == WithSuffix(Describe(content), descriptionSuffix)
       IN  IF case = "nothing"
           THEN /\ slog' = Append(slog, LogLine("INFO", <<"No PR to create, and no errors.">>))
                /\ result' = NoResult
                /\ pc' = "done"
                /\ UNCHANGED description
           ELSE IF case = "refuse"
           THEN /\ slog' = Append(slog, LogLine("ERROR", <<"No PR to create, but errors were logged">>))
                             \o RestateErrors(content.Errors)
                /\ result' = Fail(ErrNoPR)
                /\ pc' = "done"
                /\ UNCHANGED description
           ELSE /\ description' = d
                /\ IF ~PushRequested
                   THEN /\ slog' = Append(slog, LogLine("INFO",
                                       <<"Push not specified; would have created PR">> \o Title \o d))
                        /\ result' = NoResult
                        /\ pc' = "done"
                   ELSE /\ pc' = "getRemote"
                        /\ UNCHANGED <<slog, result>>
    /\ UNCHANGED <<command, gateVars, flagPush, content, processed, calls, generateVars>>

\* gitrepo.GetGitHubRepoFromRemote(ctx.languageRepo) and the check of its error.
GetGitHubRepoFromRemote(ok) ==
    /\ pc = "getRemote"
    /\ calls' = Append(calls, Call("GetGitHubRepoFromRemote", <<>>, ok))
    /\ IF ok
       THEN pc' = "push" /\ UNCHANGED result
       ELSE pc' = "done" /\ result' = Fail(CollaboratorError("GetGitHubRepoFromRemote"))
    /\ UNCHANGED <<command, gateVars, slog, publishVars, generateVars>>

PushBranchErrorIgnored(ok) ==
    /\ pc = "push"
    /\ calls' = Append(calls, Call("PushBranch", Branch, ok))
    /\ pc' = "createPR"
    /\ UNCHANGED <<command, gateVars, result, slog, publishVars, generateVars>>

\* gitrepo.PushBranch(ctx.languageRepo, branch, token) and the check of its error.
PushBranch(ok) ==
    /\ pc = "push"
    /\ calls' = Append(calls, Call("PushBranch", Branch, ok))
    /\ IF ok
       THEN pc' = "createPR" /\ UNCHANGED <<result, slog>>
       ELSE /\ pc' = "done"
            /\ slog' = Append(slog, LogLine("INFO", <<"Received error pushing branch: ",
                                                     CollaboratorError("PushBranch")>>))
            /\ result' = Fail(CollaboratorError("PushBranch"))
    /\ UNCHANGED <<command, gateVars, publishVars, generateVars>>

\* return githubrepo.CreatePullRequest(ctx.ctx, gitHubRepo, branch, title, description)
GithubCreatePullRequest(ok) ==
    /\ pc = "createPR"
    /\ calls' = Append(calls, Call("CreatePullRequest",
                                   [branch |-> Branch, title |-> Title,
                                    description |-> description], ok))
    /\ result' = IF ok THEN [metadata |-> "pull request", err |-> NoError]
                 ELSE Fail(CollaboratorError("CreatePullRequest"))
    /\ pc' = "done"
    /\ UNCHANGED <<command, gateVars, slog, publishVars, generateVars>>

\* ------------------------------------------------------------ pipeline state
\* API paths, as their sequences of path segments; EmptyPath is "".
EmptyPath == <<>>

FunctionsPath == <<"google", "functions">>

FunctionsV2Path == <<"google", "functions", "v2">>

FunctionsxPath == <<"google", "functionsx">>

UnmappedPath == <<"some", "unmapped">>

APIPaths == {EmptyPath, FunctionsPath, FunctionsV2Path, FunctionsxPath, UnmappedPath}

\* message LibraryState: the fields resolution reads.
LibraryState(id, apiPaths) == [id |-> id, api_paths |-> apiPaths]

\* message PipelineState: the fields resolution reads.
PipelineState(libraries, ignored) ==
    [libraries |-> libraries, ignored_api_paths |-> ignored]

\* A nil *statepb.PipelineState.
NoState == PipelineState(<<>>, {"nil"})

\* The pipeline states a language repository may hold.
PipelineStates ==
    { PipelineState(<<>>, {}),
      PipelineState(<<LibraryState("functions", {FunctionsPath})>>, {}),
      PipelineState(<<LibraryState("functionsx", {FunctionsxPath}),
                      LibraryState("functions", {FunctionsPath})>>, {FunctionsV2Path}) }

\* Containment on the raw path strings: the last segment of owned need only
\* be a string prefix of the segment of apiPath at that place.
OwnsPathRawString(owned, apiPath) ==
    /\ owned # <<>>
    /\ Len(owned) <= Len(apiPath)
    /\ SubSeq(apiPath, 1, Len(owned) - 1) = SubSeq(owned, 1, Len(owned) - 1)
    /\ \/ apiPath[Len(owned)] = owned[Len(owned)]
       \/ <<owned[Len(owned)], apiPath[Len(owned)]>> \in {<<"functions", "functionsx">>}

\* owned is apiPath itself or a directory above it, segment by segment.
OwnsPath(owned, apiPath) ==
    /\ Len(owned) <= Len(apiPath)
    /\ SubSeq(apiPath, 1, Len(owned)) = owned

\* library owns apiPath through one of its api_paths.
LibraryOwns(library, apiPath) ==
    \E owned \in library.api_paths : OwnsPath(owned, apiPath)

\* findLibraryIDByApiPath(state, apiPath): the id of the library that owns
\* apiPath, "" when none does or the path is ignored.
findLibraryIDByApiPath(state, apiPath) ==
    LET owners == {i \in 1..Len(state.libraries) : LibraryOwns(state.libraries[i], apiPath)}
    IN  IF apiPath \in state.ignored_api_paths \/ owners = {}
        THEN ""
        ELSE state.libraries[CHOOSE i \in owners : \A j \in owners : i <= j].id

\* --------------------------------------------------------- generate command
NoRepo == [Dir |-> ""]

APIRoots == {"", "/apis"}

RepoRoots == {"", "/repo"}

RepoUrls == {"", "https://github.com/googleapis/google-cloud-go", "not-a-github-url"}

\* githubrepo.ParseUrl(flagRepoUrl) succeeds on a GitHub repository URL.
ParsesAsGitHubUrl(url) == url = "https://github.com/googleapis/google-cloud-go"

\* filepath.Join(state.workRoot, "output")
OutputDir == "/work/output"

\* The working tree cloneOrOpenLanguageRepo yields: the local repo-root, or
\* the clone of repo-url under the work root.
RepoDir == IF flagRepoRoot # "" THEN flagRepoRoot ELSE "/work/clone"

ErrBug == "bug in Librarian: Library not found during generation, despite being found in earlier steps"

ErrBothRepos == "do not specify both repo-root and repo-url"

\* The error of filepath.Abs(flagAPIRoot).
ErrAbs == "cannot make api-root absolute"

ErrAPIPathRequired == "required flag -api-path not specified"

ErrAPIRootRequired == "required flag -api-root not specified"

\* The language repository changes (a push to the remote, an edit of the
\* local tree) between the read that decides to clone and the load for execution.
RepoStateChanges(s) ==
    /\ command = "generate"
    /\ pc = "loadState"
    /\ languageRepo # NoRepo
    /\ s # repoState
    /\ repoState' = s
    /\ UNCHANGED <<command, gateVars, pc, calls, slog, result, publishVars, flagVars,
                   probedState, languageRepo, pipelineState, libraryID>>

openOrCloneDespiteMiss(loadOk, cloneOk) ==
    /\ command = "generate"
    /\ pc = "getLanguageRepo"
    /\ IF flagRepoUrl = "" /\ flagRepoRoot = ""
       THEN /\ slog' = Append(slog, LogLine("WARN", <<"repo url and root are not specified">>))
            /\ pc' = "loadState"
            /\ UNCHANGED <<calls, result, probedState, languageRepo>>
       ELSE IF flagRepoRoot # "" /\ flagRepoUrl # ""
       THEN /\ result' = Fail(ErrBothRepos)
            /\ pc' = "done"
            /\ UNCHANGED <<calls, slog, probedState, languageRepo>>
       ELSE IF flagRepoRoot = "" /\ ~ParsesAsGitHubUrl(flagRepoUrl)
       THEN /\ calls' = Append(calls, Call("ParseUrl", flagRepoUrl, FALSE))
            /\ slog' = Append(slog, LogLine("WARN", <<"failed to parse", flagRepoUrl>>))
            /\ result' = Fail("parse url error")
            /\ pc' = "done"
            /\ UNCHANGED <<probedState, languageRepo>>
       ELSE LET load == IF flagRepoRoot # ""
                        THEN <<Call("loadPipelineStateFile", flagRepoRoot, loadOk)>>
                        ELSE <<Call("ParseUrl", flagRepoUrl, TRUE),
                               Call("fetchRemotePipelineState", "HEAD", loadOk)>>
                libID == findLibraryIDByApiPath(repoState, flagAPIPath)
            IN  IF ~loadOk
                THEN /\ calls' = calls \o load
                     /\ result' = Fail("load pipeline state error")
                     /\ pc' = "done"
                     /\ UNCHANGED <<slog, probedState, languageRepo>>
                ELSE IF FALSE
                THEN /\ calls' = calls \o load
                     /\ probedState' = repoState
                     /\ slog' = Append(slog, LogLine("INFO", <<"API path not configured in repo">>))
                     /\ pc' = "loadState"
                     /\ UNCHANGED <<result, languageRepo>>
                ELSE /\ calls' = calls \o load
                                 \o <<Call("cloneOrOpenLanguageRepo", RepoDir, cloneOk)>>
                     /\ probedState' = repoState
                     /\ slog' = Append(slog, LogLine("INFO", <<"API path configured in repo library ", libID>>))
                     /\ IF cloneOk
                        THEN /\ languageRepo' = [Dir |-> RepoDir]
                             /\ pc' = "loadState"
                             /\ UNCHANGED result
                        ELSE /\ result' = Fail("clone or open error")
                             /\ pc' = "done"
                             /\ UNCHANGED languageRepo
    /\ UNCHANGED <<command, gateVars, publishVars, flagVars, repoState, pipelineState, libraryID>>

\* maybeGetLanguageRepo: openOrCloneLanguageRepoIfLibraryExists(workRoot).
\* loadOk: the state file is read / fetched; cloneOk: the repo is opened / cloned.
openOrCloneLanguageRepoIfLibraryExists(loadOk, cloneOk) ==
    /\ command = "generate"
    /\ pc = "getLanguageRepo"
    /\ IF flagRepoUrl = "" /\ flagRepoRoot = ""
       THEN /\ slog' = Append(slog, LogLine("WARN", <<"repo url and root are not specified">>))
            /\ pc' = "loadState"
            /\ UNCHANGED <<calls, result, probedState, languageRepo>>
       ELSE IF flagRepoRoot # "" /\ flagRepoUrl # ""
       THEN /\ result' = Fail(ErrBothRepos)
            /\ pc' = "done"
            /\ UNCHANGED <<calls, slog, probedState, languageRepo>>
       ELSE IF flagRepoRoot = "" /\ ~ParsesAsGitHubUrl(flagRepoUrl)
       THEN /\ calls' = Append(calls, Call("ParseUrl", flagRepoUrl, FALSE))
            /\ slog' = Append(slog, LogLine("WARN", <<"failed to parse", flagRepoUrl>>))
            /\ result' = Fail("parse url error")
            /\ pc' = "done"
            /\ UNCHANGED <<probedState, languageRepo>>
       ELSE LET load == IF flagRepoRoot # ""
                        THEN <<Call("loadPipelineStateFile", flagRepoRoot, loadOk)>>
                        ELSE <<Call("ParseUrl", flagRepoUrl, TRUE),
                               Call("fetchRemotePipelineState", "HEAD", loadOk)>>
                libID == findLibraryIDByApiPath(repoState, flagAPIPath)
            IN  IF ~loadOk
                THEN /\ calls' = calls \o load
                     /\ result' = Fail("load pipeline state error")
                     /\ pc' = "done"
                     /\ UNCHANGED <<slog, probedState, languageRepo>>
                ELSE IF libID = ""
                THEN /\ calls' = calls \o load
                     /\ probedState' = repoState
                     /\ slog' = Append(slog, LogLine("INFO", <<"API path not configured in repo">>))
                     /\ pc' = "loadState"
                     /\ UNCHANGED <<result, languageRepo>>
                ELSE /\ calls' = calls \o load
                                 \o <<Call("cloneOrOpenLanguageRepo", RepoDir, cloneOk)>>
                     /\ probedState' = repoState
                     /\ slog' = Append(slog, LogLine("INFO", <<"API path configured in repo library ", libID>>))
                     /\ IF cloneOk
                        THEN /\ languageRepo' = [Dir |-> RepoDir]
                             /\ pc' = "loadState"
                             /\ UNCHANGED result
                        ELSE /\ result' = Fail("clone or open error")
                             /\ pc' = "done"
                             /\ UNCHANGED languageRepo
    /\ UNCHANGED <<command, gateVars, publishVars, flagVars, repoState, pipelineState, libraryID>>

\* maybeLoadStateAndConfig: loadRepoStateAndConfig(languageRepo); without a
\* language repository nothing is loaded.
loadRepoStateAndConfig(loadOk) ==
    /\ command = "generate"
    /\ pc = "loadState"
    /\ IF languageRepo = NoRepo
       THEN /\ pc' = "execute"
            /\ UNCHANGED <<calls, result, pipelineState>>
       ELSE /\ calls' = Append(calls, Call("loadRepoPipelineState", languageRepo.Dir, loadOk))
            /\ IF loadOk
               THEN /\ pipelineState' = repoState
                    /\ pc' = "execute"
                    /\ UNCHANGED result
               ELSE /\ result' = Fail("load pipeline state error")
                    /\ pc' = "done"
                    /\ UNCHANGED pipelineState
    /\ UNCHANGED <<command, gateVars, slog, publishVars, flagVars, repoState, probedState,
                   languageRepo, libraryID>>

\* runGenerate up to the call of runGenerateCommand: the required flags and
\* the output directory.
runGenerate(mkdirOk) ==
    /\ command = "generate"
    /\ pc = "execute"
    /\ IF flagAPIPath = EmptyPath
       THEN /\ result' = Fail(ErrAPIPathRequired)
            /\ pc' = "done"
            /\ UNCHANGED <<calls, slog>>
       ELSE IF flagAPIRoot = ""
       THEN /\ result' = Fail(ErrAPIRootRequired)
            /\ pc' = "done"
            /\ UNCHANGED <<calls, slog>>
       ELSE /\ calls' = Append(calls, Call("Mkdir", OutputDir, mkdirOk))
            /\ IF mkdirOk
               THEN /\ slog' = Append(slog, LogLine("INFO", <<"Code will be generated in ", OutputDir>>))
                    /\ pc' = "generate"
                    /\ UNCHANGED result
               ELSE /\ result' = Fail("mkdir error")
                    /\ pc' = "done"
                    /\ UNCHANGED slog
    /\ UNCHANGED <<command, gateVars, publishVars, generateVars>>

runGenerateCommandRawFallback(absOk, genOk) ==
    IF ~absOk
    THEN [calls |-> <<>>, slog |-> <<>>, libraryID |-> "", err |-> ErrAbs]
    ELSE IF languageRepo # NoRepo
    THEN LET id == findLibraryIDByApiPath(pipelineState, flagAPIPath)
         IN  IF id = ""
             THEN [calls |-> <<Call("GenerateRaw",
                                    [apiRoot |-> flagAPIRoot, outputDir |-> OutputDir,
                                     apiPath |-> flagAPIPath], genOk)>>,
                   slog |-> <<>>, libraryID |-> "",
                   err |-> IF genOk THEN NoError ELSE CollaboratorError("GenerateRaw")]
             ELSE [calls |-> <<Call("GenerateLibrary",
                                    [apiRoot |-> flagAPIRoot, outputDir |-> OutputDir,
                                     generatorInput |-> <<languageRepo.Dir, "generator-input">>,
                                     libraryID |-> id], genOk)>>,
                   slog |-> <<LogLine("INFO", <<"Performing refined generation for library ", id>>)>>,
                   libraryID |-> id,
                   err |-> IF genOk THEN NoError ELSE CollaboratorError("GenerateLibrary")]
    ELSE [calls |-> <<Call("GenerateRaw",
                           [apiRoot |-> flagAPIRoot, outputDir |-> OutputDir,
                            apiPath |-> flagAPIPath], genOk)>>,
          slog |-> <<LogLine("INFO", <<"No matching library found (or no repo specified); performing raw generation">>)>>,
          libraryID |-> "",
          err |-> IF genOk THEN NoError ELSE CollaboratorError("GenerateRaw")]

\* What runGenerateCommand does and returns: [calls, slog, libraryID, err].
\* absOk: filepath.Abs(flagAPIRoot) succeeds; genOk: the container command does.
runGenerateCommand(absOk, genOk) ==
    IF ~absOk
    THEN [calls |-> <<>>, slog |-> <<>>, libraryID |-> "", err |-> ErrAbs]
    ELSE IF languageRepo # NoRepo
    THEN LET id == findLibraryIDByApiPath(pipelineState, flagAPIPath)
         IN  IF id = ""
             THEN [calls |-> <<>>, slog |-> <<>>, libraryID |-> "", err |-> ErrBug]
             ELSE [calls |-> <<Call("GenerateLibrary",
                                    [apiRoot |-> flagAPIRoot, outputDir |-> OutputDir,
                                     generatorInput |-> <<languageRepo.Dir, "generator-input">>,
                                     libraryID |-> id], genOk)>>,
                   slog |-> <<LogLine("INFO", <<"Performing refined generation for library ", id>>)>>,
                   libraryID |-> id,
                   err |-> IF genOk THEN NoError ELSE CollaboratorError("GenerateLibrary")]
    ELSE [calls |-> <<Call("GenerateRaw",
                           [apiRoot |-> flagAPIRoot, outputDir |-> OutputDir,
                            apiPath |-> flagAPIPath], genOk)>>,
          slog |-> <<LogLine("INFO", <<"No matching library found (or no repo specified); performing raw generation">>)>>,
          libraryID |-> "",
          err |-> IF genOk THEN NoError ELSE CollaboratorError("GenerateRaw")]

RunGenerateCommandBuildModeSwapped(absOk, genOk) ==
    /\ command = "generate"
    /\ pc = "generate"
    /\ LET r == runGenerateCommand(absOk, genOk)
       IN  /\ calls' = calls \o r.calls
           /\ libraryID' = r.libraryID
           /\ IF r.err # NoError
              THEN /\ result' = Fail(r.err)
                   /\ pc' = "done"
                   /\ slog' = slog \o r.slog
              ELSE IF flagBuild
              THEN IF r.libraryID = ""
                   THEN /\ slog' = slog \o r.slog
                                   \o <<LogLine("INFO", <<"Build requested in the context of refined generation">>)>>
                        /\ pc' = "clean"
                        /\ UNCHANGED result
                   ELSE /\ slog' = slog \o r.slog
                        /\ pc' = "buildRaw"
                        /\ UNCHANGED result
              ELSE /\ slog' = slog \o r.slog
                   /\ result' = NoResult
                   /\ pc' = "done"
    /\ UNCHANGED <<command, gateVars, publishVars, flagVars, repoState, probedState,
                   languageRepo, pipelineState>>

RunGenerateCommandErrorIgnoredWithID(absOk, genOk) ==
    /\ command = "generate"
    /\ pc = "generate"
    /\ LET r == runGenerateCommand(absOk, genOk)
       IN  /\ calls' = calls \o r.calls
           /\ libraryID' = r.libraryID
           /\ IF r.err # NoError /\ r.libraryID = ""
              THEN /\ result' = Fail(r.err)
                   /\ pc' = "done"
                   /\ slog' = slog \o r.slog
              ELSE IF flagBuild
              THEN IF r.libraryID # ""
                   THEN /\ slog' = slog \o r.slog
                                   \o <<LogLine("INFO", <<"Build requested in the context of refined generation">>)>>
                        /\ pc' = "clean"
                        /\ UNCHANGED result
                   ELSE /\ slog' = slog \o r.slog
                        /\ pc' = "buildRaw"
                        /\ UNCHANGED result
              ELSE /\ slog' = slog \o r.slog
                   /\ result' = NoResult
                   /\ pc' = "done"
    /\ UNCHANGED <<command, gateVars, publishVars, flagVars, repoState, probedState,
                   languageRepo, pipelineState>>

\* runGenerate: libraryID, err := runGenerateCommand(state, outputDir), the
\* check of err and the choice of the build mode.
RunGenerateCommand(absOk, genOk) ==
    /\ command = "generate"
    /\ pc = "generate"
    /\ LET r == runGenerateCommand(absOk, genOk)
       IN  /\ calls' = calls \o r.calls
           /\ libraryID' = r.libraryID
           /\ IF r.err # NoError
              THEN /\ result' = Fail(r.err)
                   /\ pc' = "done"
                   /\ slog' = slog \o r.slog
              ELSE IF flagBuild
              THEN IF r.libraryID # ""
                   THEN /\ slog' = slog \o r.slog
                                   \o <<LogLine("INFO", <<"Build requested in the context of refined generation">>)>>
                        /\ pc' = "clean"
                        /\ UNCHANGED result
                   ELSE /\ slog' = slog \o r.slog
                        /\ pc' = "buildRaw"
                        /\ UNCHANGED result
              ELSE /\ slog' = slog \o r.slog
                   /\ result' = NoResult
                   /\ pc' = "done"
    /\ UNCHANGED <<command, gateVars, publishVars, flagVars, repoState, probedState,
                   languageRepo, pipelineState>>

\* One step of the build sequence: the collaborator op is invoked with arg; its
\* error is returned, otherwise the run moves on to next.
BuildStep(at, op, arg, ok, next) ==
    /\ command = "generate"
    /\ pc = at
    /\ calls' = Append(calls, Call(op, arg, ok))
    /\ IF ok
       THEN /\ pc' = next
            /\ result' = IF next = "done" THEN NoResult ELSE result
       ELSE /\ pc' = "done"
            /\ result' = Fail(CollaboratorError(op))
    /\ UNCHANGED <<command, gateVars, slog, publishVars, generateVars>>

\* container.Clean(state.containerConfig, state.languageRepo.Dir, libraryID)
Clean(ok) ==
    BuildStep("clean", "Clean", [repoDir |-> languageRepo.Dir, libraryID |-> libraryID],
              ok, "copy")

CopyFSErrorSwallowed(ok) ==
    /\ command = "generate"
    /\ pc = "copy"
    /\ calls' = Append(calls, Call("CopyFS", [dir |-> languageRepo.Dir, from |-> OutputDir], ok))
    /\ pc' = "buildLibrary"
    /\ UNCHANGED <<command, gateVars, slog, result, publishVars, generateVars>>

\* os.CopyFS(state.languageRepo.Dir, os.DirFS(outputDir))
CopyFS(ok) ==
    BuildStep("copy", "CopyFS", [dir |-> languageRepo.Dir, from |-> OutputDir], ok, "buildLibrary")

\* container.BuildLibrary(state.containerConfig, state.languageRepo.Dir, libraryID)
BuildLibrary(ok) ==
    BuildStep("buildLibrary", "BuildLibrary",
              [repoDir |-> languageRepo.Dir, libraryID |-> libraryID], ok, "done")

\* container.BuildRaw(state.containerConfig, outputDir, flagAPIPath)
BuildRaw(ok) ==
    BuildStep("buildRaw", "BuildRaw", [outputDir |-> OutputDir, apiPath |-> flagAPIPath],
              ok, "done")

\* ---------------------------------------------------------- automation gate
\* enum AutomationLevel
AUTOMATION_LEVEL_NONE == 0

AUTOMATION_LEVEL_BLOCKED == 1

AUTOMATION_LEVEL_MANUAL_REVIEW == 2

AutomaticAsZeroValue == AUTOMATION_LEVEL_NONE

AUTOMATION_LEVEL_AUTOMATIC == 3

AutomationLevels ==
    {AUTOMATION_LEVEL_NONE, AUTOMATION_LEVEL_BLOCKED,
     AUTOMATION_LEVEL_MANUAL_REVIEW, AUTOMATION_LEVEL_AUTOMATIC}

\* The value of an enum field of a message that was never set (proto3).
UnsetLevel == 0

\* The action kinds a library is gated for, each with its own level field.
ActionKinds == {"generate", "release"}

\* LibraryState.generation_automation_level / release_automation_level
LevelOf(lib, kind) ==
    IF kind = "generate" THEN lib.generation_automation_level
    ELSE lib.release_automation_level

NoLevels ==
    [generation_automation_level |-> UnsetLevel, release_automation_level |-> UnsetLevel]

NoDecision == [made |-> FALSE, permitted |-> FALSE, review |-> FALSE, unattended |-> FALSE]

NoDecisions == [kind \in ActionKinds |-> NoDecision]

\* permits(level, requireUnattended): AUTOMATIC permits unattended completion;
\* MANUAL_REVIEW permits output with the review flag set, so not where
\* unattended completion is required; every other level does not permit.
permits(level, requireUnattended) ==
    IF level = AUTOMATION_LEVEL_AUTOMATIC
    THEN [made |-> TRUE, permitted |-> TRUE, review |-> FALSE,
          unattended |-> requireUnattended]
    ELSE IF level = AUTOMATION_LEVEL_MANUAL_REVIEW
    THEN [made |-> TRUE, permitted |-> ~requireUnattended, review |-> TRUE,
          unattended |-> requireUnattended]
    ELSE [made |-> TRUE, permitted |-> FALSE, review |-> FALSE,
          unattended |-> requireUnattended]

\* The gate is asked once for an action kind of the library.
EvaluateGate(kind, requireUnattended) ==
    /\ command = "automate"
    /\ pc = "gate"
    /\ ~decisions[kind].made
    /\ decisions' = [decisions EXCEPT
                        ![kind] = permits(LevelOf(gatedLibrary, kind), requireUnattended)]
    /\ pc' = IF \A k \in ActionKinds \ {kind} : decisions[k].made THEN "done" ELSE "gate"
    /\ UNCHANGED <<command, gatedLibrary, calls, slog, result, publishVars, generateVars>>

\* ------------------------------------------------------------ specification
InitPublish ==
    /\ command = "publish"
    /\ pc = "collect"
    /\ flagPush \in BOOLEAN
    /\ content = EmptyContent
    /\ processed = <<>>
    /\ description = <<>>
    /\ calls = <<>>
    /\ slog = <<>>
    /\ result = NoResult
    /\ flagAPIPath = EmptyPath
    /\ flagAPIRoot = ""
    /\ flagRepoRoot = ""
    /\ flagRepoUrl = ""
    /\ flagBuild = FALSE
    /\ repoState = NoState
    /\ probedState = NoState
    /\ languageRepo = NoRepo
    /\ pipelineState = NoState
    /\ libraryID = ""
    /\ gatedLibrary = NoLevels
    /\ decisions = NoDecisions

InitGenerate ==
    /\ command = "generate"
    /\ pc = "getLanguageRepo"
    /\ flagPush = FALSE
    /\ content = EmptyContent
    /\ processed = <<>>
    /\ description = <<>>
    /\ calls = <<>>
    /\ slog = <<>>
    /\ result = NoResult
    /\ flagAPIPath \in APIPaths
    /\ flagAPIRoot \in APIRoots
    /\ flagRepoRoot \in RepoRoots
    /\ flagRepoUrl \in RepoUrls
    /\ flagBuild \in BOOLEAN
    /\ repoState \in PipelineStates
    /\ probedState = NoState
    /\ languageRepo = NoRepo
    /\ pipelineState = NoState
    /\ libraryID = ""
    /\ gatedLibrary = NoLevels
    /\ decisions = NoDecisions

InitAutomate ==
    /\ command = "automate"
    /\ pc = "gate"
    /\ flagPush = FALSE
    /\ content = EmptyContent
    /\ processed = <<>>
    /\ description = <<>>
    /\ calls = <<>>
    /\ slog = <<>>
    /\ result = NoResult
    /\ flagAPIPath = EmptyPath
    /\ flagAPIRoot = ""
    /\ flagRepoRoot = ""
    /\ flagRepoUrl = ""
    /\ flagBuild = FALSE
    /\ repoState = NoState
    /\ probedState = NoState
    /\ languageRepo = NoRepo
    /\ pipelineState = NoState
    /\ libraryID = ""
    /\ gatedLibrary \in [generation_automation_level : AutomationLevels \cup {UnsetLevel},
                         release_automation_level : AutomationLevels \cup {UnsetLevel}]
    /\ decisions = NoDecisions

Init == InitPublish \/ InitGenerate \/ InitAutomate

NextPublish ==
    \/ \E id \in ItemIds, err \in ErrDetails, action \in Actions : AddError(id, err, action)
    \/ \E text \in ItemIds : AddSuccess(text)
    \/ \E descriptionSuffix \in DescriptionSuffixes : CreatePullRequestStart(descriptionSuffix)
    \/ \E ok \in BOOLEAN : GetGitHubRepoFromRemote(ok)
    \/ \E ok \in BOOLEAN : PushBranch(ok)
    \/ \E ok \in BOOLEAN : GithubCreatePullRequest(ok)

NextGenerate ==
    \/ \E loadOk, cloneOk \in BOOLEAN : openOrCloneLanguageRepoIfLibraryExists(loadOk, cloneOk)
    \/ \E s \in PipelineStates : RepoStateChanges(s)
    \/ \E loadOk \in BOOLEAN : loadRepoStateAndConfig(loadOk)
    \/ \E mkdirOk \in BOOLEAN : runGenerate(mkdirOk)
    \/ \E absOk, genOk \in BOOLEAN : RunGenerateCommand(absOk, genOk)
    \/ \E ok \in BOOLEAN : Clean(ok)
    \/ \E ok \in BOOLEAN : CopyFS(ok)
    \/ \E ok \in BOOLEAN : BuildLibrary(ok)
    \/ \E ok \in BOOLEAN : BuildRaw(ok)

NextAutomate ==
    \E kind \in ActionKinds, requireUnattended \in BOOLEAN : EvaluateGate(kind, requireUnattended)

Next == NextPublish \/ NextGenerate \/ NextAutomate

Spec == Init /\ [][Next]_vars

\* --------------------------------------------------------------- properties
Publishing == command = "publish"

Returned == pc = "done"

AnySuccesses == Len(content.Successes) > 0

AnyErrors == Len(content.Errors) > 0

ErrorsOnly == ~AnySuccesses /\ AnyErrors

Invoked(op) == IndexOf(op) # {}

\* Some collaborator invocation failed.
SomeCallFailed == \E i \in 1..Len(calls) : ~calls[i].ok

\* C1: content with zero successes and at least one error makes
\* createPullRequest return the errors-only error and no metadata, and no
\* collaborator (remote resolution, branch push, pull-request creation) is
\* ever invoked, whatever flagPush is.
C1_ErrorsOnlyRefused ==
    (Publishing /\ ErrorsOnly) =>
        /\ calls = <<>>
        /\ pc \in {"collect", "done"}
        /\ Returned => result = Fail(ErrNoPR)

C1_Witness ==
    Publishing /\ Returned /\ ErrorsOnly /\ flagPush /\ Len(content.Errors) >= 2

\* C2: with at least one success, recorded errors never make
\* createPullRequest fail: an error it returns is the error of a failed
\* collaborator, and with push enabled and every collaborator succeeding
\* the pull request is created exactly once and no error is returned.
C2_ErrorsNeverBlock ==
    (Publishing /\ Returned /\ AnySuccesses) =>
        /\ result.err # ErrNoPR
        /\ result.err # NoError =>
              /\ ~calls[Len(calls)].ok
              /\ result.err = CollaboratorError(calls[Len(calls)].op)
        /\ (flagPush /\ ~SomeCallFailed) =>
              /\ Cardinality(IndexOf("CreatePullRequest")) = 1
              /\ result = [metadata |-> "pull request", err |-> NoError]

C2_Witness ==
    /\ Publishing /\ Returned /\ AnySuccesses /\ AnyErrors
    /\ flagPush /\ ~SomeCallFailed
    /\ result.metadata = "pull request"

\* C3: with push enabled, pull-request creation is invoked only after a
\* successful remote resolution followed by a successful branch push; a
\* failed remote resolution or push ends the run with that error and
\* pull-request creation is never invoked.
C3_PushBeforeCreate ==
    (Publishing /\ flagPush) =>
        /\ \A i \in IndexOf("CreatePullRequest") :
              \E j \in IndexOf("PushBranch"), k \in IndexOf("GetGitHubRepoFromRemote") :
                  k < j /\ j < i /\ calls[j].ok /\ calls[k].ok
        /\ \A j \in IndexOf("GetGitHubRepoFromRemote") \cup IndexOf("PushBranch") :
              ~calls[j].ok =>
                  /\ ~Invoked("CreatePullRequest")
                  /\ Returned
                  /\ result = Fail(CollaboratorError(calls[j].op))

C3_Witness ==
    /\ Publishing /\ flagPush /\ Returned
    /\ \E j \in IndexOf("PushBranch") : ~calls[j].ok

\* C4 as stated: with push disabled createPullRequest returns no metadata
\* and no error for every content and invokes no collaborator.
C4_DryRunNeverFails ==
    (Publishing /\ ~flagPush) =>
        /\ calls = <<>>
        /\ Returned => result = NoResult

\* C4 amended: with push disabled createPullRequest invokes no collaborator
\* for any content, and returns no metadata and no error for every content
\* except content with errors only, where it returns the errors-only error.
C4_DryRun ==
    (Publishing /\ ~flagPush) =>
        /\ calls = <<>>
        /\ pc \in {"collect", "done"}
        /\ Returned => result = IF ErrorsOnly THEN Fail(ErrNoPR) ELSE NoResult

C4_Witness ==
    /\ Publishing /\ ~flagPush /\ Returned
    /\ AnySuccesses /\ AnyErrors
    /\ description # <<>>
    /\ result = NoResult

\* C5: for content with no successes and no errors createPullRequest returns
\* no metadata and no error and invokes no collaborator, with push enabled
\* or not.
C5_EmptyContent ==
    (Publishing /\ content = EmptyContent) =>
        /\ calls = <<>>
        /\ pc \in {"collect", "done"}
        /\ Returned => result = NoResult

C5_Witness ==
    Publishing /\ Returned /\ content = EmptyContent /\ flagPush /\ slog # <<>>

Generating == command = "generate"

\* runGenerateCommand has run and returned.
GenerateCommandRan ==
    /\ Generating
    /\ pc # "generate"
    /\ \E i \in IndexOf("Mkdir") : calls[i].ok

\* The part of C6 about refined generation: at most one generation
\* collaborator is invoked; GenerateLibrary only with a language repository
\* present and the API path resolving to a non-empty id, which is the id
\* passed and the id returned; GenerateRaw gets the API path and the id
\* returned is then empty; with a repository present and no resolution
\* neither collaborator is invoked.
RefinedOnlyWhenResolved ==
    /\ Cardinality(IndexOf("GenerateLibrary") \cup IndexOf("GenerateRaw")) <= 1
    /\ \A i \in IndexOf("GenerateLibrary") :
          /\ languageRepo # NoRepo
          /\ findLibraryIDByApiPath(pipelineState, flagAPIPath) # ""
          /\ calls[i].arg.libraryID = findLibraryIDByApiPath(pipelineState, flagAPIPath)
          /\ libraryID = calls[i].arg.libraryID
    /\ \A i \in IndexOf("GenerateRaw") :
          /\ calls[i].arg.apiPath = flagAPIPath
          /\ libraryID = ""
    /\ (GenerateCommandRan /\ languageRepo # NoRepo
        /\ findLibraryIDByApiPath(pipelineState, flagAPIPath) = "") =>
           /\ ~Invoked("GenerateLibrary")
           /\ ~Invoked("GenerateRaw")
           /\ libraryID = ""
           /\ result.err \in {ErrBug, ErrAbs}

BuildSequence == <<"Clean", "CopyFS", "BuildLibrary">>

RefinedBuildCalls ==
    SelectSeq(calls, LAMBDA c : c.op \in {"Clean", "CopyFS", "BuildLibrary"})

\* Refined generation succeeded and a build was requested.
RefinedBuild ==
    /\ Generating
    /\ flagBuild
    /\ libraryID # ""
    /\ \E i \in IndexOf("GenerateLibrary") : calls[i].ok

\* C9: when a build is requested and refined generation produced a library
\* id, runGenerate invokes clean, copy, build library in that order, each
\* only after the one before succeeded; the error of a failed step is what
\* runGenerate returns, and no later step is invoked.
C9_CleanCopyBuild ==
    RefinedBuild =>
        LET b == RefinedBuildCalls
            n == Len(b)
        IN  /\ n <= 3
            /\ \A i \in 1..n : b[i].op = BuildSequence[i] /\ (i < n => b[i].ok)
            /\ \A i \in 1..n : b[i].op # "CopyFS" => b[i].arg.libraryID = libraryID
            /\ ~Invoked("BuildRaw")
            /\ IF n = 0 THEN pc = "clean"
               ELSE IF ~b[n].ok
               THEN Returned /\ result = Fail(CollaboratorError(b[n].op))
               ELSE IF n = 3 THEN Returned /\ result = NoResult
               ELSE pc = <<"copy", "buildLibrary">>[n]

C9_Witness ==
    /\ RefinedBuild
    /\ Returned
    /\ Len(RefinedBuildCalls) = 2
    /\ ~RefinedBuildCalls[2].ok
    /\ result = Fail(CollaboratorError("CopyFS"))

\* The run failed with a configuration error: a required flag is missing or
\* both repo-root and repo-url are given.
ConfigurationError ==
    /\ Generating
    /\ Returned
    /\ result.err \in {ErrAPIPathRequired, ErrAPIRootRequired, ErrBothRepos}

\* C10: a configuration error of the generate command aborts before any
\* side effect: no pipeline state loaded or fetched, no repository opened or
\* cloned, no output directory created, no generation or build invoked.
C10_ConfigErrorBeforeSideEffects ==
    ConfigurationError =>
        /\ calls = <<>>
        /\ probedState = NoState
        /\ pipelineState = NoState
        /\ languageRepo = NoRepo

\* The content a sequence of item outcomes yields, read from each item's id,
\* action and outcome alone.
RECURSIVE ContentFrom(_)
ContentFrom(items) ==
    IF items = <<>> THEN EmptyContent
    ELSE LET n == Len(items)
             rest == ContentFrom(SubSeq(items, 1, n - 1))
             item == items[n]
         IN  IF item.ok
             THEN [rest EXCEPT !.Successes = Append(@, <<item.id>>)]
             ELSE [rest EXCEPT !.Errors = Append(@, <<"Error while ", item.action, " ", item.id>>)]

SomeItemSucceeded == \E i \in 1..Len(processed) : processed[i].ok

\* Every item contributed exactly one entry, and whatever failed before,
\* the next item can be recorded and createPullRequest can run.
EveryItemRecorded ==
    /\ Len(content.Successes) + Len(content.Errors) = Len(processed)
    /\ Len(content.Successes) = Cardinality({i \in 1..Len(processed) : processed[i].ok})
    /\ (pc = "collect" /\ Len(processed) < MaxItems) =>
          /\ ENABLED AddSuccess("C")
          /\ ENABLED AddError("C", "secret-token-1", "generating")
    /\ pc = "collect" => ENABLED CreatePullRequestStart("")

\* C7 as stated: every item contributes one entry, a failed item blocks
\* neither later items nor createPullRequest, and createPullRequest returns
\* no error whenever at least one item succeeded.
C7_NoErrorAfterAnySuccess ==
    Publishing =>
        /\ EveryItemRecorded
        /\ (Returned /\ SomeItemSucceeded) => result.err = NoError

\* C7 amended: every item contributes one entry, a failed item blocks
\* neither later items nor createPullRequest, and createPullRequest returns
\* no error whenever at least one item succeeded and either push is disabled
\* or remote resolution, branch push and pull-request creation all succeed.
C7_PerItemIsolation ==
    Publishing =>
        /\ EveryItemRecorded
        /\ (Returned /\ SomeItemSucceeded) =>
              /\ result.err # ErrNoPR
              /\ (~flagPush \/ ~SomeCallFailed) => result.err = NoError

\* A succeeds, B fails generating, C succeeds; the pull request is created.
C7_Witness ==
    /\ Publishing /\ Returned /\ flagPush
    /\ Len(processed) = 3
    /\ processed[1].ok /\ processed[1].id = "A"
    /\ ~processed[2].ok /\ processed[2].id = "B" /\ processed[2].action = "generating"
    /\ processed[3].ok /\ processed[3].id = "C"
    /\ content.Successes = << <<"A">>, <<"C">> >>
    /\ content.Errors = << <<"Error while ", "generating", " ", "B">> >>
    /\ result = [metadata |-> "pull request", err |-> NoError]

\* C8: the detail of an item's error never reaches the content or the
\* description: the content is determined by the items' ids, actions and
\* outcomes alone, no entry and no description holds an error detail (which
\* is written to the local log only), and a description made from successes
\* and errors has both the errors section and the changes section.
C8_NoErrorDetailInContent ==
    Publishing =>
        /\ content = ContentFrom(processed)
        /\ \A e \in ErrDetails :
              /\ \A i \in 1..Len(content.Errors) : ~Contains(content.Errors[i], e)
              /\ ~Contains(description, e)
        /\ \A i \in 1..Len(processed) :
              ~processed[i].ok =>
                  \E k \in 1..Len(slog) :
                      slog[k].level = "WARN" /\ Contains(slog[k].msg, processed[i].err)
        /\ (description # <<>> /\ AnyErrors) =>
              /\ Contains(description, ErrorsHeading)
              /\ Contains(description, ChangesHeading)
              /\ \A i \in 1..Len(content.Errors) :
                    \A k \in 1..Len(content.Errors[i]) :
                        Contains(description, content.Errors[i][k])

\* Two failures of the same item and action with different error details
\* gave the same entry, and the description was built.
C8_Witness ==
    /\ Publishing /\ Returned /\ AnySuccesses
    /\ description # <<>>
    /\ \E i, j \in 1..Len(processed) :
          /\ i < j
          /\ ~processed[i].ok /\ ~processed[j].ok
          /\ processed[i].id = processed[j].id
          /\ processed[i].action = processed[j].action
          /\ processed[i].err # processed[j].err
          /\ content.Errors[1] = content.Errors[2]

\* The check of openOrCloneLanguageRepoIfLibraryExists found no library: the
\* pipeline state was read and no library owns the API path, or neither
\* repo-root nor repo-url is specified.
ResolutionMiss ==
    /\ Generating
    /\ pc # "getLanguageRepo"
    /\ \/ probedState # NoState /\ findLibraryIDByApiPath(probedState, flagAPIPath) = ""
       \/ flagRepoRoot = "" /\ flagRepoUrl = ""

\* The errors openOrCloneLanguageRepoIfLibraryExists returns.
OpenOrCloneErrors ==
    {ErrBothRepos, "parse url error", "load pipeline state error", "clone or open error"}

\* After a resolution miss no repository is opened or cloned, no error is
\* returned for it, refined generation is never invoked and the id
\* returned is empty.
MissMeansNoRepo ==
    /\ languageRepo = NoRepo
    /\ ~Invoked("cloneOrOpenLanguageRepo")
    /\ result.err \notin OpenOrCloneErrors
    /\ ~Invoked("GenerateLibrary")
    /\ libraryID = ""
    /\ \A i \in IndexOf("GenerateRaw") : calls[i].arg.apiPath = flagAPIPath

\* C11 as stated: after a resolution miss no repository is opened or cloned and
\* no error is returned for it, and the generation that follows invokes
\* GenerateRaw with the API path and returns an empty id.
C11_MissAlwaysGeneratesRaw ==
    ResolutionMiss =>
        /\ MissMeansNoRepo
        /\ GenerateCommandRan => Invoked("GenerateRaw")

\* C11 amended: as stated, the generation that follows invoking GenerateRaw
\* provided the API root could be made absolute.
C11_MissFallsBackToRaw ==
    ResolutionMiss =>
        /\ MissMeansNoRepo
        /\ (GenerateCommandRan /\ result.err # ErrAbs) => Invoked("GenerateRaw")

C11_Witness ==
    /\ ResolutionMiss
    /\ GenerateCommandRan
    /\ flagAPIPath = UnmappedPath
    /\ probedState # NoState
    /\ Len(probedState.libraries) > 0
    /\ \E i \in IndexOf("GenerateRaw") : calls[i].arg.apiPath = UnmappedPath

\* The recorded items that succeeded, and those that failed, in call order.
RecordedSuccesses == SelectSeq(processed, LAMBDA item : item.ok)

RecordedErrors == SelectSeq(processed, LAMBDA item : ~item.ok)

\* Successes holds the recorded success texts and Errors one summary per
\* recorded error, both in call order; with no calls the content is empty
\* and nothing is published.
ContentInCallOrder ==
    Publishing =>
        /\ Len(content.Successes) = Len(RecordedSuccesses)
        /\ \A i \in 1..Len(RecordedSuccesses) :
              content.Successes[i] = <<RecordedSuccesses[i].id>>
        /\ Len(content.Errors) = Len(RecordedErrors)
        /\ \A i \in 1..Len(RecordedErrors) :
              content.Errors[i] = <<"Error while ", RecordedErrors[i].action, " ",
                                    RecordedErrors[i].id>>
        /\ processed = <<>> =>
              /\ content = EmptyContent
              /\ calls = <<>>
              /\ description = <<>>
              /\ Returned => result = NoResult

\* Recording a success appends its text to Successes and leaves Errors
\* unchanged; recording an error appends one summary to Errors and leaves
\* Successes unchanged; nothing else changes the content.
RecordingStep ==
    IF processed' # processed
    THEN LET item == processed'[Len(processed')]
         IN  /\ processed' = Append(processed, item)
             /\ IF item.ok
                THEN /\ content'.Successes = Append(content.Successes, <<item.id>>)
                     /\ content'.Errors = content.Errors
                ELSE /\ content'.Errors = Append(content.Errors,
                                                 <<"Error while ", item.action, " ", item.id>>)
                     /\ content'.Successes = content.Successes
    ELSE content' = content

\* C12: after any sequence of addSuccessToPullRequest and
\* addErrorToPullRequest calls on empty content, Successes holds the
\* recorded success texts in call order and Errors one summary per recorded
\* error in call order; recording a success leaves Errors unchanged and
\* recording an error leaves Successes unchanged; with no calls the content
\* is empty and nothing is published.
C12_AggregatorOrdering == []ContentInCallOrder /\ [][RecordingStep]_vars

\* Successes s1, s2 recorded around an error, kept in that order.
C12_Witness ==
    /\ Publishing /\ Returned
    /\ Len(processed) = 3
    /\ processed[1].ok /\ ~processed[2].ok /\ processed[3].ok
    /\ processed[1].id = "B" /\ processed[3].id = "A"
    /\ content.Successes = << <<"B">>, <<"A">> >>
    /\ Len(content.Errors) = 1

\* The decision the gate made for kind, which is the decision it makes for
\* level blocked when asked the same way.
DecidesAsBlocked(kind) ==
    decisions[kind] = [made |-> TRUE, permitted |-> FALSE, review |-> FALSE,
                       unattended |-> decisions[kind].unattended]

OwnersOf(state, apiPath) ==
    {state.libraries[i].id : i \in
        {j \in 1..Len(state.libraries) :
            \E owned \in state.libraries[j].api_paths :
                /\ Len(owned) <= Len(apiPath)
                /\ \A k \in 1..Len(owned) : owned[k] = apiPath[k]}}

\* apiPath resolves to no library in state: it is ignored or has no owner.
ResolvesToNone(state, apiPath) ==
    apiPath \in state.ignored_api_paths \/ OwnersOf(state, apiPath) = {}

Logged(level, msg) == \E k \in 1..Len(slog) : slog[k] = LogLine(level, msg)

BuildOps == {"Clean", "CopyFS", "BuildLibrary", "BuildRaw"}

NoBuildActivity == \A i \in 1..Len(calls) : calls[i].op \notin BuildOps

\* runGenerateCommand ran with a language repository present whose loaded
\* pipeline state does not resolve the API path.
RepoWithoutLibrary ==
    /\ GenerateCommandRan
    /\ languageRepo # NoRepo
    /\ findLibraryIDByApiPath(pipelineState, flagAPIPath) = ""

\* What holds of such a run whatever error ends it: an empty id, neither
\* generation collaborator invoked, and no clean, copy or build.
AbortsWithoutGenerating ==
    /\ Returned
    /\ result.metadata = NoMetadata
    /\ libraryID = ""
    /\ ~Invoked("GenerateLibrary")
    /\ ~Invoked("GenerateRaw")
    /\ NoBuildActivity

GenerationSucceeded ==
    \E i \in IndexOf("GenerateLibrary") \cup IndexOf("GenerateRaw") : calls[i].ok

\* C16: when a build is requested and generation succeeded, at most one of
\* BuildLibrary and BuildRaw is invoked; with no library id produced,
\* BuildRaw is invoked on the output directory with the API path, its result
\* is what runGenerate returns, and Clean, the copy and BuildLibrary are
\* never invoked; with a library id produced BuildRaw is never invoked.
C16_BuildFollowsGeneration ==
    (Generating /\ flagBuild /\ GenerationSucceeded) =>
        /\ Cardinality(IndexOf("BuildLibrary") \cup IndexOf("BuildRaw")) <= 1
        /\ libraryID = "" =>
              /\ ~Invoked("Clean") /\ ~Invoked("CopyFS") /\ ~Invoked("BuildLibrary")
              /\ IF Invoked("BuildRaw") THEN Returned ELSE pc = "buildRaw"
              /\ \A i \in IndexOf("BuildRaw") :
                    /\ calls[i].arg = [outputDir |-> OutputDir, apiPath |-> flagAPIPath]
                    /\ result = IF calls[i].ok THEN NoResult
                                ELSE Fail(CollaboratorError("BuildRaw"))
        /\ libraryID # "" =>
              /\ ~Invoked("BuildRaw")
              /\ pc \in {"clean", "copy", "buildLibrary", "done"}

C16_Witness ==
    /\ Generating /\ flagBuild /\ GenerationSucceeded
    /\ libraryID = ""
    /\ Returned
    /\ \E i \in IndexOf("BuildRaw") : calls[i].ok
    /\ result = NoResult

\* One list entry per value of list[1..n], in the order of the list.
RECURSIVE EntriesUpTo(_, _)
EntriesUpTo(list, n) ==
    IF n = 0 THEN <<>>
    ELSE EntriesUpTo(list, n - 1) \o <<"- ">> \o list[n] \o <<"\n">>

\* The description without the suffix paragraph createPullRequest appended.
DescriptionBody ==
    IF Len(description) >= 2 /\ description[Len(description)] \in DescriptionSuffixes \ {""}
    THEN SubSeq(description, 1, Len(description) - 2)
    ELSE description

ErrorsSection == <<ErrorsHeading>> \o EntriesUpTo(content.Errors, Len(content.Errors))

SuccessEntries == EntriesUpTo(content.Successes, Len(content.Successes))

\* C17 as stated: the description lists the successes under a heading, after
\* the errors under another heading exactly when an error was recorded,
\* every success and every error summary as one entry in recorded order.
C17_SuccessesUnderHeading ==
    (Publishing /\ description # <<>>) =>
        /\ AnySuccesses
        /\ DescriptionBody = (IF AnyErrors THEN ErrorsSection ELSE <<>>)
                             \o <<ChangesHeading>> \o SuccessEntries

\* C17 amended: the description lists every success and every error summary
\* as one entry in recorded order; when an error was recorded the errors come
\* under the errors heading and the successes under the changes heading, and
\* when none was the description is the success entries under no heading.
C17_RenderRule ==
    (Publishing /\ description # <<>>) =>
        /\ AnySuccesses
        /\ DescriptionBody = IF AnyErrors
                             THEN ErrorsSection \o <<ChangesHeading>> \o SuccessEntries
                             ELSE SuccessEntries
        /\ Contains(description, ErrorsHeading) <=> AnyErrors
        /\ Contains(description, ChangesHeading) <=> AnyErrors

C17_Witness ==
    /\ Publishing /\ Returned
    /\ Len(content.Successes) = 2
    /\ content.Successes[1] # content.Successes[2]
    /\ Len(content.Errors) = 1
    /\ description = <<ErrorsHeading>> \o <<"- ">> \o content.Errors[1] \o <<"\n">>
                     \o <<ChangesHeading>>
                     \o <<"- ">> \o content.Successes[1] \o <<"\n">>
                     \o <<"- ">> \o content.Successes[2] \o <<"\n">>

\* A generation collaborator was invoked and returned an error.
GenerationFailed ==
    \E i \in IndexOf("GenerateLibrary") \cup IndexOf("GenerateRaw") : ~calls[i].ok

\* C18: when GenerateLibrary or GenerateRaw returns an error runGenerate
\* returns that error and invokes none of Clean, copy, BuildLibrary and
\* BuildRaw, build requested or not, although the refined path returned a
\* non-empty id with the error; with no build requested none of them is
\* ever invoked.
C18_FailedGenerationAborts ==
    Generating =>
        /\ GenerationFailed =>
              /\ Returned
              /\ NoBuildActivity
              /\ \A i \in IndexOf("GenerateLibrary") \cup IndexOf("GenerateRaw") :
                    /\ result = Fail(CollaboratorError(calls[i].op))
                    /\ calls[i].op = "GenerateLibrary" =>
                          libraryID # "" /\ libraryID = calls[i].arg.libraryID
        /\ ~flagBuild => NoBuildActivity

C18_Witness ==
    /\ Generating /\ flagBuild /\ GenerationFailed /\ Returned
    /\ libraryID # ""
    /\ result = Fail(CollaboratorError("GenerateLibrary"))

\* C19: a language repository is present only if the pipeline state read by
\* openOrCloneLanguageRepoIfLibraryExists resolved the API path; if the state
\* loaded for execution is that same state, the resolution at generation
\* time returns a non-empty id and the "bug in Librarian" error is not
\* returned; that error is returned only when the two states differ.
C19_BugOnlyIfStateChanged ==
    Generating =>
        /\ languageRepo # NoRepo =>
              /\ probedState # NoState
              /\ findLibraryIDByApiPath(probedState, flagAPIPath) # ""
        /\ (languageRepo # NoRepo /\ pipelineState = probedState) =>
              /\ findLibraryIDByApiPath(pipelineState, flagAPIPath) # ""
              /\ result.err # ErrBug
        /\ result.err = ErrBug =>
              /\ languageRepo # NoRepo
              /\ pipelineState # NoState
              /\ pipelineState # probedState

\* The library was removed from the repository between the two reads, and
\* the error was returned.
C19_Witness ==
    /\ Generating /\ Returned
    /\ result = Fail(ErrBug)
    /\ findLibraryIDByApiPath(probedState, flagAPIPath) # ""
    /\ pipelineState # NoState
    /\ findLibraryIDByApiPath(pipelineState, flagAPIPath) = ""
====
